---- MODULE Spec2Model ----
(***************************************************************************)
(* Model of fuzzpaint-thumbnailer (src/src/main.rs): the container scanner *)
(* read_fzp_thmb and the clamped stream adapter MyTake, running over the   *)
(* BufReader<File> that main builds.                                       *)
(*                                                                         *)
(* All quantities are exact integers.  Over a well-behaved reader the      *)
(* values stay below 2^31, so the upper limits of u64/i64 are never        *)
(* approached and the checked operations fail on their lower side only (a  *)
(* result below zero).  Over a misbehaving reader a count or cursor near   *)
(* 2^64 is written as its two's complement, a negative v for 2^64 + v.     *)
(***************************************************************************)
EXTENDS Integers, Sequences, FiniteSets, TLC

Min(a, b) == IF a <= b THEN a ELSE b
Max(a, b) == IF a >= b THEN a ELSE b

(***************************************************************************)
(* Bounds of the model.                                                    *)
(***************************************************************************)
\* number of MyTake calls explored on a returned view
MaxOps == 3
\* largest small value of a block's size field
MaxSize == 3
\* largest small request size, consume amount or seek offset
MaxArg == 2
\* payload bytes physically present in the third chunk
TailLen == 2

\* a size far larger than any physical file of the model (2^29)
Huge == 536870912

(***************************************************************************)
(* Program constants.                                                      *)
(***************************************************************************)
\* capacity of the BufReader built by BufReader::new(file)
BufCap == 8192
\* length of the container header and of a block header
FzpHeaderLen == 12
BlockHeaderLen == 8

\* MAX_INPUT_IMAGE_DIMENSION
MaxInputImageDimension == 1024
\* the largest size main accepts
MaxRequestedSize == 2048
\* the number of arguments main wants
ArgsWanted == 4
\* bytes of the image header that qoi::Decoder::from_stream reads
QoiHeaderLen == 14

\* u32::MAX = 42949 67295 in two limbs of five decimal digits
Limb == 100000
U32MaxHi == 42949
U32MaxLo == 67295

RIFF == <<82, 73, 70, 70>>
FZP == <<102, 122, 112, 32>>
THMB == <<116, 104, 109, 98>>
\* tags that are not the expected ones
LIST == <<76, 73, 83, 84>>
RIFX == <<82, 73, 70, 88>>
FZPX == <<102, 122, 112, 33>>

(***************************************************************************)
(* Byte encodings.                                                         *)
(***************************************************************************)
\* u32::from_le_bytes
FromLeBytes(b) == b[1] + 256 * b[2] + 65536 * b[3] + 16777216 * b[4]

\* the four little-endian bytes of a size field, as laid out in the file
ToLeBytes(v) ==
  << v % 256, (v \div 256) % 256, (v \div 65536) % 256, (v \div 16777216) % 256 >>

\* u32::saturating_sub
SaturatingSub(a, b) == IF a >= b THEN a - b ELSE 0

(***************************************************************************)
(* The input file: a 12-byte header followed by three chunks laid out back *)
(* to back, each chunk's header placed right after the declared payload of *)
(* the previous one; the file may physically end early (cut).                *)
(***************************************************************************)
Off1(f) == FzpHeaderLen
Off2(f) == Off1(f) + BlockHeaderLen + f.size1
Off3(f) == Off2(f) + BlockHeaderLen + f.size2
FullLen(f) == Off3(f) + BlockHeaderLen + TailLen

\* where the file physically ends
Cuts == {"whole", "in payload 2", "in payload 1", "in header 1", "in header"}

\* the physical length of the file
FLen(f) ==
  CASE f.cut = "whole" -> FullLen(f)
    [] f.cut = "in payload 2" -> Off3(f) - 1
    [] f.cut = "in payload 1" -> Off1(f) + BlockHeaderLen + 1
    [] f.cut = "in header 1" -> Off1(f) + 5
    [] f.cut = "in header" -> 7

\* the byte stored at offset off; the content of the payloads, which the
\* scanner never looks at, is left out (zero)
ByteAt(f, off) ==
  IF off < 4 THEN f.magic[off + 1]
  ELSE IF off < 8 THEN ToLeBytes(f.total)[off - 3]
  ELSE IF off < 12 THEN f.form[off - 7]
  ELSE IF off < Off1(f) + 4 THEN f.tag1[off - Off1(f) + 1]
  ELSE IF off < Off1(f) + 8 THEN ToLeBytes(f.size1)[off - Off1(f) - 3]
  ELSE IF off < Off2(f) THEN 0
  ELSE IF off < Off2(f) + 4 THEN f.tag2[off - Off2(f) + 1]
  ELSE IF off < Off2(f) + 8 THEN ToLeBytes(f.size2)[off - Off2(f) - 3]
  ELSE IF off < Off3(f) THEN 0
  ELSE IF off < Off3(f) + 4 THEN f.tag3[off - Off3(f) + 1]
  ELSE IF off < Off3(f) + 8 THEN ToLeBytes(TailLen)[off - Off3(f) - 3]
  ELSE 0

\* the n bytes starting at offset off
BytesAt(f, off, n) == [i \in 1..n |-> ByteAt(f, off + i - 1)]

SizeVals == (0..MaxSize) \cup {Huge}
TotalVals == {0, 2, 10, 12, Huge}

Files ==
  { f \in [magic : {RIFF, RIFX}, total : TotalVals, form : {FZP, FZPX},
           tag1 : {THMB, LIST}, size1 : SizeVals,
           tag2 : {THMB, LIST}, size2 : SizeVals,
           tag3 : {THMB, LIST}, cut : Cuts] :
      \* fields the scanner never reaches are not varied
      /\ (f.magic # RIFF \/ f.form # FZP) =>
           (f.tag1 = THMB /\ f.size1 = 1 /\ f.total = 12)
      /\ (f.magic # RIFF \/ f.form # FZP \/ f.tag1 = THMB) =>
           (f.tag2 = LIST /\ f.size2 = 1)
      /\ (f.magic # RIFF \/ f.form # FZP \/ f.tag1 = THMB \/ f.tag2 = THMB) =>
           f.tag3 = LIST
      /\ f.cut = "in payload 2" => f.size2 > 0 }

(***************************************************************************)
(* BufReader<File>: upos is the logical position of the stream, bufd the   *)
(* number of bytes buffered at and after it.  A regular file returns every *)
(* byte asked for up to its end, and rejects a seek to a negative offset.  *)
(***************************************************************************)
\* bytes of the file at and after position p
Rest(flen, p) == Max(0, flen - p)

\* BufReader::fill_buf: refill an empty buffer; the bytes now buffered
BufFill(flen, p, b) == IF b = 0 THEN Min(BufCap, Rest(flen, p)) ELSE b

\* BufReader::read into a buffer of n > 0 bytes
BufRead(flen, p, b, n) ==
  IF b = 0 /\ n >= BufCap
  THEN LET k == Min(n, Rest(flen, p)) IN [n |-> k, upos |-> p + k, bufd |-> 0]
  ELSE LET a == BufFill(flen, p, b)
           k == Min(n, a)
       IN  [n |-> k, upos |-> p + k, bufd |-> a - k]

\* BufReader::read_exact of n bytes: UnexpectedEof when the file ends first
BufReadExact(flen, p, b, n) ==
  IF b >= n THEN [ok |-> TRUE, upos |-> p + n, bufd |-> b - n]
  ELSE IF Rest(flen, p) < n
       THEN [ok |-> FALSE, upos |-> p + Rest(flen, p), bufd |-> 0]
       ELSE LET m == n - b
                q == p + b
            IN  IF m >= BufCap
                THEN [ok |-> TRUE, upos |-> p + n, bufd |-> 0]
                ELSE [ok |-> TRUE, upos |-> p + n,
                      bufd |-> Min(BufCap, Rest(flen, q)) - m]

\* mutant of BufConsume: the amount is not cut to what is buffered
BufConsumeUnclamped(p, b, amt) == [upos |-> p + amt, bufd |-> b - amt]

\* BufReader::consume
BufConsume(p, b, amt) ==
  LET k == Min(amt, b) IN [upos |-> p + k, bufd |-> b - k]

\* BufReader::seek(SeekFrom::Current(d)): the buffer is discarded
BufSeekCurrent(p, b, d) ==
  IF p + d < 0 THEN [ok |-> FALSE, upos |-> p, bufd |-> b]
  ELSE [ok |-> TRUE, upos |-> p + d, bufd |-> 0]

(***************************************************************************)
(* State.                                                                  *)
(***************************************************************************)
VARIABLES
  file,                 \* the input file (never changes)
  pc,                   \* position of the program: "start", "block1", "skip",
                        \*   "block2", "view" (read_fzp_thmb returned Ok), "failed"
  err,                  \* the error read_fzp_thmb returned, "" if none
  upos, bufd,           \* the BufReader<File>
  remaining_file_size,  \* read_fzp_thmb's local
  block_size,           \* read_fzp_thmb's local: size field of the last block header
  hdrAt,                \* offsets at which block headers were read, in order
  nSeek,                \* seeks issued by read_fzp_thmb
  cursor, len,          \* MyTake's fields
  origin,               \* position of the reader when MyTake::new was called
  fillLen,              \* length of the slice the last fill_buf handed out and
                        \*   that is still valid (0 after any other call)
  synced,               \* FALSE once consume was called with more than fillLen
  last,                 \* the last MyTake call and its outcome
  totalRead,            \* sum of the counts returned by MyTake::read
  readsOnly,            \* TRUE while no consume and no seek has been called
  ops,                  \* MyTake calls made so far
  args,                 \* main: the arguments collected (count, size text)
  size,                 \* main: the parsed size
  img,                  \* main: width, height, colorspace of the decoder's header
  buf,                  \* main: bytes of the decode buffer while it lives
  scaled,               \* main: scaled_width, scaled_height
  out,                  \* the file at out_path: "absent", "created", "written"
  metas,                \* text chunks given to the png encoder, in order
  done,                 \* main: the stages completed, in order
  merr                  \* the error main returned, "" if none

vars == << file, pc, err, upos, bufd, remaining_file_size, block_size, hdrAt,
           nSeek, cursor, len, origin, fillLen, synced, last, totalRead, readsOnly, ops,
           args, size, img, buf, scaled, out, metas, done, merr >>

mainVars == << args, size, img, buf, scaled, out, metas, done, merr >>

scanVars == << remaining_file_size, block_size, hdrAt, nSeek >>
takeVars == << cursor, len, origin, fillLen, synced, last, totalRead, readsOnly, ops >>

NoCall ==
  [op |-> "none", kind |-> "", arg |-> 0, ok |-> TRUE, ret |-> 0, e |-> "",
   c0 |-> 0, u0 |-> 0, lo |-> 0, hi |-> 0, inner |-> "none", d |-> 0]

NoImage == [width |-> 0, height |-> 0, srgb |-> FALSE]

\* main before its first statement
MainInit ==
  /\ args = [n |-> 0, size |-> << >>, utf8 |-> TRUE]
  /\ size = 0
  /\ img = NoImage
  /\ buf = 0
  /\ scaled = << 0, 0 >>
  /\ out = "absent"
  /\ metas = << >>
  /\ done = << >>
  /\ merr = ""

Init ==
  /\ file \in Files
  /\ pc = "start"
  /\ MainInit
  /\ err = ""
  /\ upos = 0
  /\ bufd = 0
  /\ remaining_file_size = 0
  /\ block_size = 0
  /\ hdrAt = << >>
  /\ nSeek = 0
  /\ cursor = 0
  /\ len = 0
  /\ origin = 0
  /\ fillLen = 0
  /\ synced = TRUE
  /\ last = NoCall
  /\ totalRead = 0
  /\ readsOnly = TRUE
  /\ ops = 0

(***************************************************************************)
(* read_fzp_thmb                                                           *)
(***************************************************************************)
\* MyTake::new(reader, len)
MyTakeNew(l) ==
  /\ len' = l
  /\ cursor' = 0
  /\ origin' = upos'
  /\ UNCHANGED << fillLen, synced, last, totalRead, readsOnly, ops >>

\* the window length handed to MyTake::new for a thmb block
TakeLen(bsize, rfs) == Min(bsize, rfs)

\* mutant of AfterSkip: the skipped block's header is not counted
AfterSkipPayloadOnly(rfs, bsize) == SaturatingSub(rfs, bsize)

\* remaining_file_size after a skipped block
AfterSkip(rfs, bsize) == SaturatingSub(SaturatingSub(rfs, bsize), BlockHeaderLen)

\* mutant of SkipDelta: the header already read is skipped once more
SkipDeltaWithHeader(bsize) == bsize + BlockHeaderLen

\* the distance of the seek that skips a block's payload
SkipDelta(bsize) == bsize

\* mutant of HeaderOk: one matching tag is enough
HeaderOkEither(h) == SubSeq(h, 1, 4) = RIFF \/ SubSeq(h, 9, 12) = FZP

\* the magic and form checks on the 12 header bytes
HeaderOk(h) == SubSeq(h, 1, 4) = RIFF /\ SubSeq(h, 9, 12) = FZP

Fail(e) ==
  /\ pc' = "failed"
  /\ err' = e

\* read_exact of the 12-byte header, the magic/form checks, the total size
ReadFzpHeader ==
  /\ pc = "start"
  /\ LET r == BufReadExact(FLen(file), upos, bufd, FzpHeaderLen)
         h == BytesAt(file, upos, FzpHeaderLen)
     IN  /\ upos' = r.upos
         /\ bufd' = r.bufd
         /\ IF ~r.ok THEN Fail("io") /\ UNCHANGED remaining_file_size
            ELSE IF ~HeaderOk(h)
                 THEN Fail("unrecognized file type")
                      /\ UNCHANGED remaining_file_size
                 ELSE /\ pc' = "block1"
                      /\ err' = ""
                      /\ remaining_file_size' = FromLeBytes(SubSeq(h, 5, 8))
  /\ UNCHANGED << mainVars, file, block_size, hdrAt, nSeek, takeVars >>

\* read_block and the tag test, for the first (next = "skip") and the second
\* (next = "failed") block
ReadBlock(at, next) ==
  /\ pc = at
  /\ LET r == BufReadExact(FLen(file), upos, bufd, BlockHeaderLen)
         h == BytesAt(file, upos, BlockHeaderLen)
     IN  /\ upos' = r.upos
         /\ bufd' = r.bufd
         /\ IF ~r.ok
            THEN Fail("io") /\ UNCHANGED << block_size, hdrAt, takeVars >>
            ELSE /\ block_size' = FromLeBytes(SubSeq(h, 5, 8))
                 /\ hdrAt' = Append(hdrAt, upos)
                 /\ IF SubSeq(h, 1, 4) = THMB
                    THEN /\ pc' = "view"
                         /\ err' = ""
                         /\ MyTakeNew(TakeLen(block_size', remaining_file_size))
                    ELSE /\ IF next = "failed"
                            THEN Fail("document does not contain a thumbnail")
                            ELSE pc' = next /\ err' = ""
                         /\ UNCHANGED takeVars
  /\ UNCHANGED << mainVars, file, remaining_file_size, nSeek >>

ReadBlock1 == ReadBlock("block1", "skip")

\* fast-forward over the first block's payload
SkipBlock1 ==
  /\ pc = "skip"
  /\ LET s == BufSeekCurrent(upos, bufd, SkipDelta(block_size))
     IN  /\ upos' = s.upos
         /\ bufd' = s.bufd
         /\ nSeek' = nSeek + 1
         /\ IF ~s.ok THEN Fail("io") /\ UNCHANGED remaining_file_size
            ELSE /\ pc' = "block2"
                 /\ err' = ""
                 /\ remaining_file_size' = AfterSkip(remaining_file_size, block_size)
  /\ UNCHANGED << mainVars, file, block_size, hdrAt, takeVars >>

\* mutant of ReadBlock2: the scan goes on to the next block
ReadBlock2GoesOn == ReadBlock("block2", "skip")

ReadBlock2 == ReadBlock("block2", "failed")

(***************************************************************************)
(* MyTake                                                                  *)
(***************************************************************************)
\* mutant of Remaining: the cursor is forgotten
RemainingOfWindow(c, l) == l

\* MyTake::remaining
Remaining(c, l) == l - c

\* mutant of Trimmed: the request is passed on as it came
TrimmedNot(n, c, l) == n

\* the request of read, the slice of fill_buf and the amount of consume,
\* each cut down to what remains of the window
Trimmed(n, c, l) == Min(n, Remaining(c, l))

\* <MyTake as Read>::read with a buffer of n bytes
TakeRead(n) ==
  /\ pc = "view" /\ ops < MaxOps
  /\ LET t == Trimmed(n, cursor, len)
         r == BufRead(FLen(file), upos, bufd, t)
     IN  IF t = 0
         THEN /\ last' = [NoCall EXCEPT !.op = "read", !.arg = n, !.c0 = cursor,
                                        !.u0 = upos, !.lo = upos, !.hi = upos]
              /\ UNCHANGED << upos, bufd, cursor, fillLen, totalRead >>
         ELSE /\ upos' = r.upos
              /\ bufd' = r.bufd
              /\ cursor' = cursor + r.n
              /\ fillLen' = 0
              /\ totalRead' = totalRead + r.n
              /\ last' = [NoCall EXCEPT !.op = "read", !.arg = n, !.ret = r.n,
                                        !.c0 = cursor, !.u0 = upos, !.lo = upos,
                                        !.hi = upos + r.n, !.inner = "read",
                                        !.d = r.n]
  /\ ops' = ops + 1
  /\ UNCHANGED << mainVars, file, pc, err, scanVars, len, origin, synced, readsOnly >>

\* <MyTake as BufRead>::fill_buf
TakeFillBuf ==
  /\ pc = "view" /\ ops < MaxOps
  /\ LET a == BufFill(FLen(file), upos, bufd)
         t == Trimmed(a, cursor, len)
     IN  /\ bufd' = a
         /\ fillLen' = t
         /\ last' = [NoCall EXCEPT !.op = "fill_buf", !.ret = t, !.c0 = cursor,
                                   !.u0 = upos, !.lo = upos, !.hi = upos + t,
                                   !.inner = "fill_buf"]
  /\ ops' = ops + 1
  /\ UNCHANGED << mainVars, file, pc, err, scanVars, upos, cursor, len, origin, synced,
                  totalRead, readsOnly >>

\* <MyTake as BufRead>::consume
TakeConsume(amt) ==
  /\ pc = "view" /\ ops < MaxOps
  /\ LET t == Trimmed(amt, cursor, len)
         r == BufConsume(upos, bufd, t)
     IN  /\ cursor' = cursor + t
         /\ upos' = r.upos
         /\ bufd' = r.bufd
         /\ last' = [NoCall EXCEPT !.op = "consume", !.arg = amt, !.ret = t,
                                   !.c0 = cursor, !.u0 = upos, !.lo = upos,
                                   !.hi = upos, !.inner = "consume",
                                   !.d = r.upos - upos]
  /\ synced' = (synced /\ amt <= fillLen)
  /\ fillLen' = Max(0, fillLen - amt)
  /\ readsOnly' = FALSE
  /\ ops' = ops + 1
  /\ UNCHANGED << mainVars, file, pc, err, scanVars, len, origin, totalRead >>

\* the new cursor of a seek from the start of the window
SeekStart(off, c, l) == [ok |-> TRUE, v |-> Min(off, Remaining(c, l)), e |-> ""]

\* mutant of SeekCurrent: a positive delta is not clamped
SeekCurrentUnclamped(off, c, l) ==
  IF c + off < 0
  THEN [ok |-> FALSE, v |-> 0, e |-> "seek offset overflows cursor"]
  ELSE [ok |-> TRUE, v |-> c + off, e |-> ""]

\* mutant of SeekCurrent: a result before the start is clamped to the start
SeekCurrentFloored(off, c, l) ==
  LET delta == IF off > 0 THEN Min(off, Remaining(c, l)) ELSE off
  IN  [ok |-> TRUE, v |-> Max(0, c + delta), e |-> ""]

\* the new cursor of a seek relative to the cursor
SeekCurrent(off, c, l) ==
  LET delta == IF off > 0 THEN Min(off, Remaining(c, l)) ELSE off
  IN  IF c >= 0 /\ c + delta < 0
      THEN [ok |-> FALSE, v |-> 0, e |-> "seek offset overflows cursor"]
      ELSE [ok |-> TRUE, v |-> c + delta, e |-> ""]

\* the new cursor of a seek from the end of the window
SeekEnd(off, c, l) ==
  LET pos == Max(off, 0)
  IN  IF l - pos < 0
      THEN [ok |-> FALSE, v |-> 0, e |-> "seek offset past-the-start"]
      ELSE [ok |-> TRUE, v |-> l - pos, e |-> ""]

NewCursor(kind, off, c, l) ==
  CASE kind = "start" -> SeekStart(off, c, l)
    [] kind = "current" -> SeekCurrent(off, c, l)
    [] kind = "end" -> SeekEnd(off, c, l)

\* mutant of SeekDelta: the new cursor is passed on as the distance
SeekDeltaAbsolute(new, old) == new

\* checked_as::<i64>: a value written as a negative number stands for
\* 2^64 + v, which no i64 holds
FitsI64(v) == v >= 0

\* the distance of the relative seek issued on the reader
SeekDelta(new, old) == new - old

\* mutant of CursorAfterSeek: the cursor is stored before the reader's seek
\* is known to have succeeded
CursorAfterSeekEager(ok, new, old) == new

\* the cursor after the reader's seek returned
CursorAfterSeek(ok, new, old) == IF ok THEN new ELSE old

\* <MyTake as Seek>::seek
TakeSeek(kind, off) ==
  /\ pc = "view" /\ ops < MaxOps
  /\ LET nc == NewCursor(kind, off, cursor, len)
         delta == SeekDelta(nc.v, cursor)
         s == BufSeekCurrent(upos, bufd, delta)
         call == [NoCall EXCEPT !.op = "seek", !.kind = kind, !.arg = off,
                                !.c0 = cursor, !.u0 = upos, !.lo = upos,
                                !.hi = upos]
     IN  IF ~nc.ok
         THEN /\ last' = [call EXCEPT !.ok = FALSE, !.e = nc.e]
              /\ UNCHANGED << upos, bufd, cursor, fillLen >>
         ELSE IF ~FitsI64(nc.v) \/ ~FitsI64(cursor)
         THEN /\ last' = [call EXCEPT !.ok = FALSE,
                                      !.e = "delta seek overflows"]
              /\ UNCHANGED << upos, bufd, cursor, fillLen >>
         ELSE /\ upos' = s.upos
              /\ bufd' = s.bufd
              /\ cursor' = CursorAfterSeek(s.ok, nc.v, cursor)
              /\ fillLen' = IF s.ok THEN 0 ELSE fillLen
              /\ last' = IF s.ok
                         THEN [call EXCEPT !.ret = nc.v,
                                           !.inner = "seek current", !.d = delta]
                         ELSE [call EXCEPT !.ok = FALSE, !.e = "io",
                                           !.inner = "seek current", !.d = delta]
  /\ readsOnly' = FALSE
  /\ ops' = ops + 1
  /\ UNCHANGED << mainVars, file, pc, err, scanVars, len, origin, synced, totalRead >>

(***************************************************************************)
(* Inputs of the MyTake calls.                                             *)
(***************************************************************************)
ReadSizes == (0..MaxArg) \cup {Huge}
ConsumeAmts == (0..MaxArg) \cup {Huge}
StartOffs == (0..MaxArg) \cup {Huge}
SignedOffs == ((-MaxArg)..MaxArg) \cup {-Huge, Huge}

Next ==
  \/ ReadFzpHeader
  \/ ReadBlock1
  \/ SkipBlock1
  \/ ReadBlock2
  \/ \E n \in ReadSizes : TakeRead(n)
  \/ TakeFillBuf
  \/ \E amt \in ConsumeAmts : TakeConsume(amt)
  \/ \E off \in StartOffs : TakeSeek("start", off)
  \/ \E off \in SignedOffs : TakeSeek("current", off)
  \/ \E off \in SignedOffs : TakeSeek("end", off)

Spec == Init /\ [][Next]_vars

TypeOK ==
  /\ pc \in {"start", "block1", "skip", "block2", "view", "failed", "panicked",
             "args", "open", "dims", "alloc", "decode", "scale", "resize",
             "create", "metas", "write", "done"}
  /\ upos \in Nat /\ bufd \in Nat
  /\ cursor \in Int /\ len \in Nat

(***************************************************************************)
(* MyTake over a reader that breaks the Read contract: its read reports    *)
(* more bytes than the buffer it was given holds.  debug_assert! stops a   *)
(* debug build and is compiled out of a release build.                     *)
(***************************************************************************)
Builds == {"debug", "release"}

\* usize::MAX, the largest count a reader can report, written as its two's
\* complement: a negative count, cursor or sum v stands for 2^64 + v
UsizeMax == -1

\* self.len.checked_sub(self.cursor) fails: the cursor is past the end
PastEnd(c, l) == c < 0 \/ c > l

\* by how much the count a bad reader reports exceeds the buffer's length,
\* or the count itself when it is usize::MAX
Excess == (1..MaxArg) \cup {Huge, UsizeMax}

\* the files of the runs over a bad reader
BadFiles ==
  { f \in Files : f.magic = RIFF /\ f.form = FZP /\ f.tag1 = THMB
                  /\ f.cut = "whole" }

InitBad == Init /\ file \in BadFiles

\* the outcome of read's checks on the count k the reader reported:
\* checked_add, which fails when c + k reaches 2^64, then the debug assertion
ReadCheck(build, c, l, k) ==
  LET wraps == k < 0 /\ c + k >= 0
      past == k < 0 \/ c + k > l
  IN  IF wraps
      THEN [panic |-> FALSE, e |-> "inner reader overflowed MyTake cursor",
            cursor |-> c]
      ELSE IF build = "debug" /\ past
      THEN [panic |-> TRUE, e |-> "", cursor |-> c]
      ELSE [panic |-> FALSE, e |-> "", cursor |-> c + k]

\* <MyTake as Read>::read with a buffer of n bytes, the reader reporting
\* x bytes more than the buffer passed to it holds, or usize::MAX.  The
\* build is drawn with the call; a cursor past len only arises in a release
\* build.  totalRead is the sum of the counts returned, modulo 2^64.
TakeReadBad(build, n, x) ==
  /\ pc = "view" /\ ops < MaxOps /\ ~PastEnd(cursor, len)
  /\ LET t == Trimmed(n, cursor, len)
         k == IF x = UsizeMax THEN UsizeMax ELSE t + x
         r == ReadCheck(build, cursor, len, k)
         call == [NoCall EXCEPT !.op = "read", !.arg = n, !.c0 = cursor,
                                !.u0 = upos, !.lo = upos, !.hi = upos + t,
                                !.inner = "bad read", !.d = k]
     IN  /\ t > 0
         /\ upos' = upos + t
         /\ bufd' = 0
         /\ cursor' = r.cursor
         /\ IF r.panic
            THEN /\ pc' = "panicked"
                 /\ err' = "assertion failed: new_cursor <= self.len"
                 /\ last' = [call EXCEPT !.ok = FALSE, !.e = "panic"]
                 /\ UNCHANGED totalRead
            ELSE IF r.e # ""
            THEN /\ last' = [call EXCEPT !.ok = FALSE, !.e = r.e]
                 /\ UNCHANGED << pc, err, totalRead >>
            ELSE /\ last' = [call EXCEPT !.ret = k]
                 /\ totalRead' = totalRead + k
                 /\ UNCHANGED << pc, err >>
  /\ fillLen' = 0
  /\ ops' = ops + 1
  /\ UNCHANGED << mainVars, file, scanVars, len, origin, synced, readsOnly >>

\* a call that evaluates remaining() with the cursor past the end: read,
\* fill_buf, consume, seek from the start, seek forward from the cursor
RemainingPanics ==
  /\ pc = "view" /\ PastEnd(cursor, len)
  /\ pc' = "panicked"
  /\ err' = "cursor past the end"
  /\ UNCHANGED << mainVars, file, upos, bufd, scanVars, takeVars >>

\* with the cursor past the end the seeks that do not evaluate remaining()
\* go on as ever: from the end, and from the cursor by a delta <= 0
NextBad ==
  \/ (~PastEnd(cursor, len) /\ Next)
  \/ \E build \in Builds, n \in ReadSizes, x \in Excess :
       TakeReadBad(build, n, x)
  \/ (PastEnd(cursor, len) /\ \E off \in SignedOffs : TakeSeek("end", off))
  \/ (PastEnd(cursor, len) /\ \E off \in SignedOffs :
                                off <= 0 /\ TakeSeek("current", off))
  \/ RemainingPanics

SpecBad == InitBad /\ [][NextBad]_vars

(***************************************************************************)
(* f32 arithmetic of the scale step.  A positive f32 is m * 2^e with       *)
(* 2^23 <= m < 2^24; every operation rounds to nearest, ties to even.  The *)
(* operands are integers below 2^24, which u32 as f32 converts exactly.    *)
(***************************************************************************)
RECURSIVE F32Normalise(_, _, _)
\* a / b scaled by powers of two until b <= a < 2b; e0 counts the scaling
F32Normalise(a, b, e0) ==
  IF a < b THEN F32Normalise(2 * a, b, e0 - 1)
  ELSE IF a >= 2 * b THEN F32Normalise(a, 2 * b, e0 + 1)
  ELSE [a |-> a, b |-> b, e0 |-> e0]

RECURSIVE F32Bits(_, _, _, _)
\* the next n quotient bits of r / b appended to m, and the remainder left
F32Bits(m, r, b, n) ==
  IF n = 0 THEN [m |-> m, r |-> r]
  ELSE IF 2 * r >= b THEN F32Bits(2 * m + 1, 2 * r - b, b, n - 1)
       ELSE F32Bits(2 * m, 2 * r, b, n - 1)

\* a as f32 / b as f32
F32Div(a, b) ==
  LET nz == F32Normalise(a, b, 0)
      q == F32Bits(1, nz.a - nz.b, nz.b, 23)
      up == 2 * q.r > nz.b \/ (2 * q.r = nz.b /\ q.m % 2 = 1)
      m == IF up THEN q.m + 1 ELSE q.m
  IN  IF m = 16777216 THEN [m |-> 8388608, e |-> nz.e0 - 22]
      ELSE [m |-> m, e |-> nz.e0 - 23]

RECURSIVE BitLen(_)
\* number of binary digits of n
BitLen(n) == IF n = 0 THEN 0 ELSE 1 + BitLen(n \div 2)

\* w as f32 * q, rounded to f32: the value is (hi * 4096 + lo) * 2^e
F32Mul(w, q) ==
  LET lo0 == w * (q.m % 4096)
      hi == w * (q.m \div 4096) + lo0 \div 4096
      lo == lo0 % 4096
      s == BitLen(hi) + 12 - 24
      low == lo % (2 ^ s)
      odd == (lo \div (2 ^ s)) % 2 = 1
      up == s > 0 /\ (2 * low > 2 ^ s \/ (2 * low = 2 ^ s /\ odd))
      lo1 == lo - low + (IF up THEN 2 ^ s ELSE 0)
  IN  IF lo1 = 4096 THEN [hi |-> hi + 1, lo |-> 0, e |-> q.e]
      ELSE [hi |-> hi, lo |-> lo1, e |-> q.e]

\* f32::ceil() as u32
F32CeilAsU32(x) ==
  LET u == (-x.e) - 12
      ip == x.hi \div (2 ^ u)
  IN  IF x.hi % (2 ^ u) # 0 \/ x.lo # 0 THEN ip + 1 ELSE ip

\* mutant of ScaledDim: the product is rounded down
ScaledDimFloor(d, sz, max_dim) == (d * sz) \div max_dim

\* (d as f32 * (sz as f32 / max_dim as f32)).ceil() as u32, sz the size
ScaledDim(d, sz, max_dim) == F32CeilAsU32(F32Mul(d, F32Div(sz, max_dim)))

(***************************************************************************)
(* main: one pass from the arguments to the png.  The decoder, the resizer *)
(* and the png encoder are libraries: what they return is drawn here.      *)
(***************************************************************************)
\* mutant of StageAfter: the output file is opened next to the input file
StageAfterCreateFirst(st) ==
  CASE st = "args" -> "open"
    [] st = "open" -> "create"
    [] st = "create" -> "start"
    [] st = "view" -> "dims"
    [] st = "dims" -> "alloc"
    [] st = "alloc" -> "decode"
    [] st = "decode" -> "scale"
    [] st = "scale" -> "resize"
    [] st = "resize" -> "metas"
    [] st = "metas" -> "write"
    [] st = "write" -> "done"

\* the statement main goes on with when a stage has succeeded
StageAfter(st) ==
  CASE st = "args" -> "open"
    [] st = "open" -> "start"
    [] st = "view" -> "dims"
    [] st = "dims" -> "alloc"
    [] st = "alloc" -> "decode"
    [] st = "decode" -> "scale"
    [] st = "scale" -> "resize"
    [] st = "resize" -> "create"
    [] st = "create" -> "metas"
    [] st = "metas" -> "write"
    [] st = "write" -> "done"

\* return Err(e) from main
MainFail(e) ==
  /\ pc' = "failed"
  /\ merr' = e

\* a stage has succeeded
MainGoOn(st) ==
  /\ pc' = StageAfter(pc)
  /\ done' = Append(done, st)
  /\ merr' = ""

\* char::to_digit(10), -1 for a character that is no digit
DigitOf(ch) ==
  CASE ch = "0" -> 0 [] ch = "1" -> 1 [] ch = "2" -> 2 [] ch = "3" -> 3
    [] ch = "4" -> 4 [] ch = "5" -> 5 [] ch = "6" -> 6 [] ch = "7" -> 7
    [] ch = "8" -> 8 [] ch = "9" -> 9 [] OTHER -> -1

NoU32 == [ok |-> FALSE, hi |-> 0, lo |-> 0]

RECURSIVE ParseDigits(_, _, _)
\* the digit loop of the parse from character i on: result * 10 + digit with
\* checked_mul and checked_add; acc is the result so far, hi * Limb + lo
ParseDigits(text, i, acc) ==
  IF i > Len(text) THEN acc
  ELSE LET d == DigitOf(text[i])
           lo10 == acc.lo * 10 + d
           hi == acc.hi * 10 + lo10 \div Limb
           lo == lo10 % Limb
       IN  IF d < 0 THEN NoU32
           ELSE IF hi > U32MaxHi \/ (hi = U32MaxHi /\ lo > U32MaxLo) THEN NoU32
           ELSE ParseDigits(text, i + 1, [ok |-> TRUE, hi |-> hi, lo |-> lo])

\* str::parse::<u32> of the size argument, a sequence of characters: the
\* value is hi * Limb + lo
ParseU32(text) ==
  IF Len(text) = 0 THEN NoU32
  ELSE IF Len(text) = 1 /\ text[1] \in {"+", "-"} THEN NoU32
  ELSE ParseDigits(text, IF text[1] = "+" THEN 2 ELSE 1,
                   [ok |-> TRUE, hi |-> 0, lo |-> 0])

\* mutant of ArgsOk: the uri may be left out
ArgsOkWithoutUri(n) == Min(n, ArgsWanted) >= ArgsWanted - 1

\* args().skip(1).take(4) converts into [String; 4]
ArgsOk(n) == Min(n, ArgsWanted) = ArgsWanted

\* the error of main's argument checks, "" if there is none
ArgsError(n, a) ==
  IF ~ArgsOk(n)
  THEN "Usage: fuzzpaint-thumbnailer <in_path> <size in px> <out_path> <in_uri>"
  ELSE IF ~ParseU32(a).ok
  THEN "<size> parameter must be a non-negative integer"
  ELSE IF ParseU32(a).hi = 0 /\ ParseU32(a).lo = 0
  THEN "<size> parameter must not be zero"
  ELSE IF ParseU32(a).hi > 0 \/ ParseU32(a).lo > MaxRequestedSize
  THEN "<size> parameter larger than reasonable"
  ELSE ""

\* the arguments are collected and checked: n arguments, the second being
\* the text a; utf8 tells whether the program name and the first four
\* arguments are valid Unicode, std::env::args panicking on one that is not
ParseArgs(n, a, utf8) ==
  /\ pc = "args"
  /\ args' = [n |-> Min(n, ArgsWanted), size |-> a, utf8 |-> utf8]
  /\ IF ~utf8
     THEN /\ pc' = "panicked"
          /\ merr' = "called Result::unwrap() on an Err value"
          /\ UNCHANGED << size, done >>
     ELSE IF ArgsError(n, a) # ""
     THEN MainFail(ArgsError(n, a)) /\ UNCHANGED << size, done >>
     ELSE MainGoOn("args") /\ size' = ParseU32(a).lo
  /\ UNCHANGED << file, err, upos, bufd, scanVars, takeVars, img, buf, scaled,
                  out, metas >>

\* File::open(in_path), its modification time
OpenInput(res) ==
  /\ pc = "open"
  /\ IF res = "ok" THEN MainGoOn("open")
     ELSE MainFail(res) /\ UNCHANGED done
  /\ UNCHANGED << file, err, upos, bufd, scanVars, takeVars, args, size, img,
                  buf, scaled, out, metas >>

RECURSIVE TakeReadLoop(_, _)
\* read_exact through <MyTake as Read>::read, need bytes being wanted: one
\* read per round until nothing is wanted or a read returns 0.  x holds the
\* view after the reads so far (cursor, upos, bufd, fillLen, totalRead, last,
\* ops) and the bytes still missing
TakeReadLoop(x, need) ==
  LET t == Trimmed(need, x.cursor, len)
      r == BufRead(FLen(file), x.upos, x.bufd, t)
      call == [NoCall EXCEPT !.op = "read", !.arg = need, !.c0 = x.cursor,
                             !.u0 = x.upos, !.lo = x.upos, !.hi = x.upos]
  IN  IF need = 0 THEN [x EXCEPT !.need = 0]
      ELSE IF t = 0
      THEN [x EXCEPT !.need = need, !.last = call, !.ops = x.ops + 1]
      ELSE LET y == [x EXCEPT !.cursor = x.cursor + r.n, !.upos = r.upos,
                              !.bufd = r.bufd, !.fillLen = 0,
                              !.totalRead = x.totalRead + r.n,
                              !.last = [call EXCEPT !.ret = r.n,
                                                    !.hi = x.upos + r.n,
                                                    !.inner = "read",
                                                    !.d = r.n],
                              !.ops = x.ops + 1]
           IN  IF r.n = 0 THEN [y EXCEPT !.need = need]
               ELSE TakeReadLoop(y, need - r.n)

\* the view as the read loop finds it
ViewNow ==
  [cursor |-> cursor, upos |-> upos, bufd |-> bufd, fillLen |-> fillLen,
   totalRead |-> totalRead, last |-> last, ops |-> ops, need |-> 0]

\* the view as the read loop leaves it
ViewBecomes(x) ==
  /\ cursor' = x.cursor
  /\ upos' = x.upos
  /\ bufd' = x.bufd
  /\ fillLen' = x.fillLen
  /\ totalRead' = x.totalRead
  /\ last' = x.last
  /\ ops' = x.ops

\* qoi::Decoder::from_stream(qoi_reader): the header is read from the view;
\* the decoder takes it (accept) with the width, height and colorspace w, h,
\* srgb, or refuses it
QoiHeader(accept, w, h, srgb) ==
  /\ pc = "view"
  /\ LET x == TakeReadLoop(ViewNow, QoiHeaderLen)
     IN  /\ ViewBecomes(x)
         /\ IF x.need > 0 \/ ~accept
            THEN MainFail("failed to parse thumbnail header")
                 /\ UNCHANGED << img, done >>
            ELSE MainGoOn("header")
                 /\ img' = [width |-> w, height |-> h, srgb |-> srgb]
  /\ UNCHANGED << file, err, scanVars, len, origin, synced, readsOnly, args,
                  size, buf, scaled, out, metas >>

\* mutant of DimsError: the height is not compared with the limit
DimsErrorWidthOnly(w, h) ==
  IF w > MaxInputImageDimension THEN "thumbnail size exceeds limit"
  ELSE IF w = 0 \/ h = 0 THEN "thumbnail has zero size"
  ELSE ""

\* the error of the checks on the header's width and height, "" if none
DimsError(w, h) ==
  IF w > MaxInputImageDimension \/ h > MaxInputImageDimension
  THEN "thumbnail size exceeds limit"
  ELSE IF w = 0 \/ h = 0 THEN "thumbnail has zero size"
  ELSE ""

\* the size limit and the NonZeroU32 conversions
CheckDims ==
  /\ pc = "dims"
  /\ IF DimsError(img.width, img.height) # ""
     THEN MainFail(DimsError(img.width, img.height)) /\ UNCHANGED done
     ELSE MainGoOn("dims")
  /\ UNCHANGED << file, err, upos, bufd, scanVars, takeVars, args, size, img,
                  buf, scaled, out, metas >>

\* Decoder::required_buf_len with four channels
RequiredBufLen(w, h) == w * h * 4

\* vec![U8x4; len_bytes.div_ceil(4)]
Alloc ==
  /\ pc = "alloc"
  /\ buf' = ((RequiredBufLen(img.width, img.height) + 3) \div 4) * 4
  /\ MainGoOn("alloc")
  /\ UNCHANGED << file, err, upos, bufd, scanVars, takeVars, args, size, img,
                  scaled, out, metas >>

\* the number of bytes decode_to_buf reads for w x h pixels: the shortest
\* encoding (runs of 62 pixels) and the longest (5 bytes a pixel), each
\* with the 8 bytes of the end marker
DecodeReads(w, h) == {(w * h + 61) \div 62 + 8, 5 * w * h + 8}

\* image_decoder.decode_to_buf(data_slice): the decoder owns the view and
\* reads want bytes of pixel data through it, taken here as one read_exact;
\* it fails when the view ends before that and may refuse the data (~ok).
\* A failure returns from main, which drops the buffer
Decode(ok, want) ==
  /\ pc = "decode"
  /\ LET x == TakeReadLoop(ViewNow, want)
     IN  /\ ViewBecomes(x)
         /\ IF x.need = 0 /\ ok THEN MainGoOn("decode") /\ UNCHANGED buf
            ELSE /\ MainFail("failed to parse thumbnail data")
                 /\ buf' = 0
                 /\ UNCHANGED done
  /\ UNCHANGED << file, err, scanVars, len, origin, synced, readsOnly, args,
                  size, img, scaled, out, metas >>

\* the scale step; a failure returns from main, which drops the buffer
Scale ==
  /\ pc = "scale"
  /\ LET max_dim == Max(img.width, img.height)
         scaled_width == ScaledDim(img.width, size, max_dim)
         scaled_height == ScaledDim(img.height, size, max_dim)
     IN  IF scaled_width = 0 \/ scaled_height = 0
         THEN MainFail("scaled thumbnail has zero size")
              /\ buf' = 0
              /\ UNCHANGED << scaled, done >>
         ELSE MainGoOn("scale")
              /\ scaled' = << scaled_width, scaled_height >>
              /\ UNCHANGED buf
  /\ UNCHANGED << file, err, upos, bufd, scanVars, takeVars, args, size, img,
                  out, metas >>

\* the resize, then drop(rgba)
Resize ==
  /\ pc = "resize"
  /\ buf' = 0
  /\ MainGoOn("resize")
  /\ UNCHANGED << file, err, upos, bufd, scanVars, takeVars, args, size, img,
                  scaled, out, metas >>

\* File::create(out_path)
CreateOut(ok) ==
  /\ pc = "create"
  /\ IF ok THEN MainGoOn("create") /\ out' = "created"
     ELSE MainFail("failed to open out_path for writing")
          /\ UNCHANGED << out, done >>
  /\ UNCHANGED << file, err, upos, bufd, scanVars, takeVars, args, size, img,
                  buf, scaled, metas >>

\* the text chunks of try_metas, mtime the modification time in seconds
TextChunks(mtime) ==
  << << "Software", "Fuzzpaint" >>,
     << "Thumb::URI", "in_uri" >>,
     << "Thumb::MTime", ToString(mtime) >>,
     << "Thumb::Mimetype", "application/x.fuzzpaint-doc" >>,
     << "Thumb::Image::Width", "1080" >>,
     << "Thumb::Image::Height", "1080" >>,
     << "X-Fuzzpaint::Soup", "very good" >> >>

\* try_metas()
WriteMetas(ok, mtime) ==
  /\ pc = "metas"
  /\ IF ok THEN MainGoOn("metas") /\ metas' = TextChunks(mtime)
     ELSE MainFail("failed to write metadata") /\ UNCHANGED << metas, done >>
  /\ UNCHANGED << file, err, upos, bufd, scanVars, takeVars, args, size, img,
                  buf, scaled, out >>

\* write_header and write_image_data
WritePng(ok) ==
  /\ pc = "write"
  /\ IF ok THEN MainGoOn("write") /\ out' = "written"
     ELSE MainFail("failed to write png") /\ UNCHANGED << out, done >>
  /\ UNCHANGED << file, err, upos, bufd, scanVars, takeVars, args, size, img,
                  buf, scaled, metas >>

(***************************************************************************)
(* Inputs of main.                                                         *)
(***************************************************************************)
ArgCounts == 0..(ArgsWanted + 1)
SizeArgs ==
  { << >>, << "x" >>, << "-", "1" >>, << "+" >>, << "0" >>, << "1" >>,
    << "5", "7" >>, << "+", "5", "7" >>, << "1", "0", "0" >>,
    << "2", "0", "4", "8" >>, << "2", "0", "4", "9" >>,
    << "4", "2", "9", "4", "9", "6", "7", "2", "9", "5" >>,
    << "4", "2", "9", "4", "9", "6", "7", "2", "9", "6" >> }
OpenResults == {"ok", "failed to access in_path",
                "second time provided was later than self"}
DimVals == {0, 1, 2, 7, MaxInputImageDimension, MaxInputImageDimension + 1}
MTimes == {0, 1700000000}

\* the files of the runs of main
MainFiles ==
  { f \in Files : /\ f.total \in {12, Huge}
                  /\ f.size1 \in {1, MaxSize, Huge}
                  /\ f.size2 \in {1, MaxSize, Huge} }

InitMain ==
  /\ file \in MainFiles
  /\ pc = "args"
  /\ MainInit
  /\ err = ""
  /\ upos = 0 /\ bufd = 0
  /\ remaining_file_size = 0 /\ block_size = 0 /\ hdrAt = << >> /\ nSeek = 0
  /\ cursor = 0 /\ len = 0 /\ origin = 0
  /\ fillLen = 0 /\ synced = TRUE /\ last = NoCall
  /\ totalRead = 0 /\ readsOnly = TRUE /\ ops = 0

NextMain ==
  \/ \E n \in ArgCounts, a \in SizeArgs, utf8 \in BOOLEAN : ParseArgs(n, a, utf8)
  \/ \E res \in OpenResults : OpenInput(res)
  \/ ReadFzpHeader
  \/ ReadBlock1
  \/ SkipBlock1
  \/ ReadBlock2
  \/ \E accept \in BOOLEAN, w \in DimVals, h \in DimVals, srgb \in BOOLEAN :
       QoiHeader(accept, w, h, srgb)
  \/ CheckDims
  \/ Alloc
  \/ \E ok \in BOOLEAN, want \in DecodeReads(img.width, img.height) :
       Decode(ok, want)
  \/ Scale
  \/ Resize
  \/ \E ok \in BOOLEAN : CreateOut(ok)
  \/ \E ok \in BOOLEAN, mtime \in MTimes : WriteMetas(ok, mtime)
  \/ \E ok \in BOOLEAN : WritePng(ok)

SpecMain == InitMain /\ [][NextMain]_vars

(***************************************************************************)
(* Properties of MyTake.                                                   *)
(***************************************************************************)
\* the byte offsets [lo, hi) of the underlying stream that the last call
\* handed to its caller
Handed == last.op \in {"read", "fill_buf"} /\ last.hi > last.lo

\* C1: no byte of the underlying stream at offset >= origin + len is ever
\* returned by read or shown in the slice of fill_buf, whatever calls came
\* before and however much data lies behind the window.
C1_NoBytePastWindow ==
  Handed => (last.lo >= 0 /\ last.hi <= origin + len /\ last.hi <= FLen(file))

\* C1 witness: after an earlier call, fill_buf shows bytes up to the last one
\* of the window while the underlying buffer holds bytes beyond it.
C1_Witness ==
  /\ pc = "view" /\ ops >= 2
  /\ last.op = "fill_buf" /\ last.ret > 0
  /\ last.hi = origin + len
  /\ bufd > last.ret
  /\ FLen(file) > origin + len

\* C2: while only reads are made, the counts returned sum to at most len, and
\* a read issued with cursor = len returns Ok(0).
C2_ReadsSumToAtMostLen ==
  /\ readsOnly => totalRead <= len
  /\ (last.op = "read" /\ last.c0 = len) =>
       (last.ok /\ last.ret = 0 /\ last.inner = "none" /\ cursor = len)

\* C2 witness: reads have returned all len > 0 bytes and a further read of a
\* non-empty buffer returned zero.
C2_Witness ==
  /\ pc = "view" /\ readsOnly /\ len > 0 /\ totalRead = len
  /\ last.op = "read" /\ last.arg > 0 /\ last.c0 = len /\ last.ret = 0

\* C3: cursor <= len in every state.
C3_CursorWithinLen == 0 <= cursor /\ cursor <= len

\* C3 witness: a seek forward from inside the window, asking for more than
\* remains, stopped at len.
C3_Witness ==
  /\ pc = "view" /\ last.op = "seek" /\ last.kind = "current"
  /\ last.c0 > 0 /\ last.arg > len - last.c0 /\ cursor = len

\* C4: a seek from the start, made at any cursor, succeeds, leaves the cursor
\* at min(target, len) and returns it (stated for callers that keep to the
\* fill_buf/consume contract).
C4_SeekStartClampsToLen ==
  (last.op = "seek" /\ last.kind = "start" /\ synced) =>
     (last.ok /\ cursor = Min(last.arg, len) /\ last.ret = cursor)

\* C5: a seek from the end by -k succeeds with cursor = len - k when
\* 0 <= k <= len and fails with the past-the-start error when k > len.
C5_SeekEndSubtracts ==
  (last.op = "seek" /\ last.kind = "end" /\ last.arg <= 0 /\ synced) =>
     IF -last.arg <= len
     THEN last.ok /\ cursor = len + last.arg /\ last.ret = cursor
     ELSE ~last.ok /\ last.e = "seek offset past-the-start" /\ cursor = last.c0

\* C6 as stated: a seek relative to the cursor c by d ends at min(c + d, len)
\* when d > 0, at c + d when d <= 0 and c + d >= 0, and fails, the cursor
\* unchanged, when c + d < 0.
C6_SeekCurrentAsStated ==
  (last.op = "seek" /\ last.kind = "current") =>
     LET d == last.arg
         c == last.c0
     IN  /\ d > 0 => (last.ok /\ cursor = Min(c + d, len) /\ last.ret = cursor)
         /\ (d <= 0 /\ c + d >= 0) =>
              (last.ok /\ cursor = c + d /\ last.ret = cursor)
         /\ c + d < 0 =>
              (~last.ok /\ last.e = "seek offset overflows cursor"
               /\ cursor = c /\ last.inner = "none")

\* C6 amended: a seek relative to the cursor c by d ends at min(c + d, len)
\* when d > 0; when d <= 0 and c + d >= 0 it ends at c + d for callers that
\* keep to the fill_buf/consume contract, and otherwise either ends at c + d
\* or fails with the reader's error, the cursor unchanged; when c + d < 0 it
\* fails, the cursor unchanged and the reader untouched.
C6_SeekCurrent ==
  (last.op = "seek" /\ last.kind = "current") =>
     LET d == last.arg
         c == last.c0
     IN  /\ d > 0 => (last.ok /\ cursor = Min(c + d, len) /\ last.ret = cursor)
         /\ (d <= 0 /\ c + d >= 0 /\ synced) =>
              (last.ok /\ cursor = c + d /\ last.ret = cursor)
         /\ (d <= 0 /\ c + d >= 0 /\ ~synced) =>
              \/ last.ok /\ cursor = c + d /\ last.ret = cursor
              \/ ~last.ok /\ last.e = "io" /\ cursor = c
                 /\ last.inner = "seek current"
         /\ c + d < 0 =>
              (~last.ok /\ last.e = "seek offset overflows cursor"
               /\ cursor = c /\ last.inner = "none")

\* C6 witness: a caller that kept to the contract has moved back inside the
\* window, from c > 0 to c + d >= 0.
C6_Witness ==
  /\ pc = "view" /\ synced /\ last.op = "seek" /\ last.kind = "current"
  /\ last.arg < 0 /\ last.c0 + last.arg >= 0 /\ last.ok
  /\ cursor = last.c0 + last.arg

\* C15: for callers that keep to the fill_buf/consume contract the reader
\* stands at origin + cursor after every call, and every seek that reaches the
\* reader is a relative seek by new cursor - old cursor.
C15_ReaderFollowsCursor ==
  /\ (pc = "view" /\ synced) => upos = origin + cursor
  /\ (last.op = "seek" /\ last.ok) =>
       (last.inner = "seek current" /\ last.d = cursor - last.c0
        /\ upos = last.u0 + last.d)

\* C15 witness: after bytes were read, a seek from the start moved the cursor
\* and the reader back by the same distance.
C15_Witness ==
  /\ pc = "view" /\ synced /\ last.op = "seek" /\ last.kind = "start"
  /\ last.ok /\ last.c0 > 0 /\ cursor < last.c0
  /\ upos = origin + cursor /\ origin > 0

\* C17 as stated: consume moves the cursor and the reader's buffer cursor by
\* min(amount, remaining), whatever the amount.
C17_ConsumeMovesBoth ==
  last.op = "consume" =>
     (cursor = last.c0 + Min(last.arg, len - last.c0)
      /\ last.d = Min(last.arg, len - last.c0))

\* C17 amended: consume moves the cursor by min(amount, remaining) and hands
\* that number to the reader, which moves by it when it has that many bytes
\* buffered (as it has for every caller that keeps to the fill_buf/consume
\* contract) and by what it has buffered otherwise.
C17_ConsumeAmended ==
  last.op = "consume" =>
     /\ last.ret = Min(last.arg, len - last.c0)
     /\ cursor = last.c0 + last.ret
     /\ last.d = Min(last.ret, bufd + last.d)
     /\ upos = last.u0 + last.d
     /\ synced => last.d = last.ret

\* C17 witness: an amount above what remains of the window and above what is
\* buffered was consumed.
C17_Witness ==
  /\ pc = "view" /\ last.op = "consume"
  /\ last.arg > last.ret /\ last.ret > last.d /\ last.d > 0

\* C19: a seek that fails leaves cursor and reader where they were; when the
\* new cursor could not be computed the reader is not called at all.
C19_FailedSeekChangesNothing ==
  (last.op = "seek" /\ ~last.ok) =>
     /\ cursor = last.c0
     /\ upos = last.u0
     /\ last.e \in {"seek offset overflows cursor", "seek offset past-the-start"}
          => last.inner = "none"
     /\ last.e = "io" => last.inner = "seek current"
     /\ last.e \in {"seek offset overflows cursor", "seek offset past-the-start",
                    "io"}

\* C19 witness: the reader refused the relative seek, and the cursor, which
\* the seek would have moved, is where it was.
C19_Witness ==
  /\ pc = "view" /\ last.op = "seek" /\ ~last.ok /\ last.e = "io"
  /\ last.d # 0 /\ cursor = last.c0 /\ cursor > 0

(***************************************************************************)
(* Properties of read_fzp_thmb, stated on the fields the file was built    *)
(* from.                                                                   *)
(***************************************************************************)
ValidHeader == file.magic = RIFF /\ file.form = FZP

\* read_fzp_thmb has just returned Ok(view)
Returned == pc = "view" /\ ops = 0

\* C7: the returned view has cursor 0, starts right after the 8-byte header
\* of the thmb block, and has length min(block size, remaining file size),
\* the latter being the declared total size for block 1 and
\* max(0, total - size1 - 8) for block 2.
C7_ViewOfThmbBlock ==
  Returned =>
    /\ cursor = 0
    /\ origin = upos
    /\ origin = hdrAt[Len(hdrAt)] + BlockHeaderLen
    /\ Len(hdrAt) = 1 =>
         (file.tag1 = THMB /\ len = Min(file.size1, file.total))
    /\ Len(hdrAt) = 2 =>
         (file.tag2 = THMB
          /\ len = Min(file.size2,
                       Max(0, file.total - file.size1 - BlockHeaderLen)))
    /\ Len(hdrAt) \in {1, 2}

\* C7 witness: block 2 is returned with a length cut down to what the
\* declared total leaves after block 1, and the subtraction of the header
\* alone would have gone below zero.
C7_Witness ==
  /\ Returned /\ Len(hdrAt) = 2
  /\ file.total >= file.size1 /\ file.total - file.size1 < BlockHeaderLen
  /\ file.size2 > 0 /\ len = 0

\* C8: when block 1 is not the thmb block the scanner seeks over exactly
\* size1 bytes, reads the header of block 2 at offset 12 + 8 + size1, and a
\* view on block 2 starts at offset 28 + size1.
C8_SkipsBlock1Payload ==
  /\ pc = "block2" =>
       (upos = FzpHeaderLen + BlockHeaderLen + file.size1 /\ nSeek = 1
        /\ bufd = 0 /\ file.tag1 # THMB)
  /\ Len(hdrAt) >= 1 => hdrAt[1] = FzpHeaderLen
  /\ Len(hdrAt) >= 2 =>
       (hdrAt[2] = FzpHeaderLen + BlockHeaderLen + file.size1 /\ nSeek = 1)
  /\ (Returned /\ Len(hdrAt) = 2) =>
       origin = FzpHeaderLen + 2 * BlockHeaderLen + file.size1

\* C8 witness: a view on block 2 found behind a very large block 1.
C8_Witness ==
  /\ Returned /\ Len(hdrAt) = 2 /\ file.size1 = Huge /\ file.tag2 = THMB
  /\ origin = Huge + 28

\* C9: a header whose magic or form type is wrong makes the scanner fail
\* with the format error at offset 12, no block header read, no seek issued,
\* no view returned.
C9_BadHeaderRejected ==
  (~ValidHeader /\ FLen(file) >= FzpHeaderLen /\ pc # "start") =>
     /\ pc = "failed"
     /\ err = "unrecognized file type"
     /\ upos = FzpHeaderLen
     /\ hdrAt = << >>
     /\ nSeek = 0
     /\ ops = 0

\* C9 witness: the magic is right, the form type is wrong, and the scanner
\* has failed.
C9_Witness ==
  /\ pc = "failed" /\ file.magic = RIFF /\ file.form # FZP
  /\ err = "unrecognized file type"

\* C10: with a valid header and neither of the first two tags being thmb,
\* the scanner never returns a view, and where both block headers are in the
\* file it fails with the not-found error; no run reads more than two block
\* headers or issues more than one seek.
C10_TwoBlocksOnly ==
  /\ Len(hdrAt) <= 2
  /\ nSeek <= 1
  /\ (ValidHeader /\ file.tag1 # THMB /\ file.tag2 # THMB) =>
       /\ pc # "view"
       /\ (pc = "failed" /\ FLen(file) >= Off2(file) + BlockHeaderLen) =>
            err = "document does not contain a thumbnail"

\* C10 witness: the third block is the thmb block, it is in the file, and the
\* scanner has failed with the not-found error.
C10_Witness ==
  /\ pc = "failed" /\ err = "document does not contain a thumbnail"
  /\ ValidHeader /\ file.tag3 = THMB /\ file.cut = "whole"
  /\ Len(hdrAt) = 2 /\ nSeek = 1

\* C18: the returned view ends at or before the container's declared end,
\* offset 8 + declared total size, for block 1 and for block 2.
C18_ViewInsideDeclaredExtent ==
  Returned => origin + len <= 8 + file.total

\* C16: when the reader reports more bytes than remain of the window, read
\* returns the overflow error and the cursor is not past len.
C16_BadReaderGivesError ==
  (last.op = "read" /\ last.inner = "bad read"
   /\ (last.d < 0 \/ last.d > len - last.c0)) =>
     (~last.ok /\ last.e = "inner reader overflowed MyTake cursor"
      /\ ~PastEnd(cursor, len) /\ pc = "view")


(***************************************************************************)
(* Properties of main.                                                     *)
(***************************************************************************)
UsageError ==
  "Usage: fuzzpaint-thumbnailer <in_path> <size in px> <out_path> <in_uri>"
SizeErrors == {"thumbnail size exceeds limit", "thumbnail has zero size"}
HeaderTaken == img # NoImage
Range(s) == {s[i] : i \in 1..Len(s)}
ValidSizeArg(a) ==
  ParseU32(a).ok /\ ParseU32(a).hi = 0 /\ ParseU32(a).lo \in 1..MaxRequestedSize
CeilDiv(a, b) == (a + b - 1) \div b
StageOrder == << "args", "open", "header", "dims", "alloc", "decode", "scale",
                 "resize", "create", "metas", "write" >>
IsPrefix(s, t) == Len(s) <= Len(t) /\ \A i \in 1..Len(s) : s[i] = t[i]
\* the value written under a key, "" if the key was not written
MetaValue(key) ==
  IF \E i \in 1..Len(metas) : metas[i][1] = key
  THEN metas[CHOOSE i \in 1..Len(metas) : metas[i][1] = key][2]
  ELSE ""

\* the error main returns: an error of the scanner is wrapped
MainError == IF err # "" THEN "failed to parse input file: " \o err ELSE merr

\* C11: a header whose width or height is above 1024 or zero makes main fail
\* with a size error, and in such a run no pixel buffer is allocated and no
\* pixel data decoded.
C11_BadDimsRejectedEarly ==
  (HeaderTaken /\ (\/ img.width > 1024 \/ img.height > 1024
                   \/ img.width = 0 \/ img.height = 0)) =>
     /\ buf = 0
     /\ "alloc" \notin Range(done) /\ "decode" \notin Range(done)
     /\ pc \in {"dims", "failed"}
     /\ pc = "failed" => merr \in SizeErrors

\* an accepted header of 1 x 1025 has been rejected
C11_Witness ==
  /\ pc = "failed" /\ HeaderTaken
  /\ img.width = 1 /\ img.height = 1025
  /\ merr = "thumbnail size exceeds limit"

\* C12: in a successful run the values written under Thumb::Image::Width and
\* Thumb::Image::Height are the width and height of the image header.
C12_MetaDimsAreOriginal ==
  pc = "done" =>
     /\ MetaValue("Thumb::Image::Width") = ToString(img.width)
     /\ MetaValue("Thumb::Image::Height") = ToString(img.height)

\* C13: for an accepted w x h and a requested size S the scale step gives
\* ceil(w*S / max(w,h)) and ceil(h*S / max(w,h)), the larger being S and both
\* at least 1, and the zero-size rejection is never taken.
C13_ScaledIsCeil ==
  /\ merr # "scaled thumbnail has zero size"
  /\ "scale" \in Range(done) =>
       /\ scaled[1] = CeilDiv(img.width * size, Max(img.width, img.height))
       /\ scaled[2] = CeilDiv(img.height * size, Max(img.width, img.height))
       /\ Max(scaled[1], scaled[2]) = size
       /\ scaled[1] >= 1 /\ scaled[2] >= 1

\* C14 as stated: three arguments with a valid size are not rejected with
\* the usage error.
C14_UriOptional ==
  (pc # "args" /\ args.utf8 /\ args.n = ArgsWanted - 1
   /\ ValidSizeArg(args.size)) =>
     ~(pc = "failed" /\ merr = UsageError)

\* C14 amended: fewer than four arguments are rejected with the usage error
\* before anything else is done (the program panics instead when an argument
\* is not valid Unicode), and four arguments with a valid size pass the
\* argument checks.
C14_UriRequired ==
  /\ (pc # "args" /\ args.n < ArgsWanted) =>
        /\ done = << >> /\ out = "absent"
        /\ IF args.utf8 THEN pc = "failed" /\ merr = UsageError
                        ELSE pc = "panicked"
  /\ (pc # "args" /\ args.utf8 /\ args.n = ArgsWanted
      /\ ValidSizeArg(args.size)) =>
        (Len(done) >= 1 /\ done[1] = "args" /\ merr # UsageError)

\* input path, a valid size and output path without a uri have been refused
C14_Witness ==
  /\ pc = "failed" /\ args.utf8 /\ args.n = ArgsWanted - 1
  /\ ValidSizeArg(args.size)
  /\ merr = UsageError

\* C20: the stages run in one fixed order, the output file exists only when
\* the argument checks, the scan, the header checks, the decode, the scale
\* and the resize have succeeded, and nothing runs after a failed stage.
C20_OutputAfterAllEarlierStages ==
  /\ [](/\ IsPrefix(done, StageOrder)
        /\ out # "absent" =>
             (/\ err = ""
              /\ \A i \in 1..8 : Len(done) >= i /\ done[i] = StageOrder[i])
        /\ (pc \in {"failed", "panicked"} /\ "create" \notin Range(done)) =>
             out = "absent")
  /\ [][(pc = "failed" \/ pc = "panicked") => UNCHANGED vars]_vars

\* a run that allocated the buffer and failed in the decode
C20_Witness ==
  /\ pc = "failed" /\ merr = "failed to parse thumbnail data"
  /\ done = << "args", "open", "header", "dims", "alloc" >>
  /\ out = "absent"

====
